---- MODULE Spec2Model ----
(***************************************************************************)
(* Order lifecycle engine of the food-order backend                        *)
(* (food_order_backend/api: models.py, serializers.py, views.py, admin.py).*)
(*                                                                         *)
(* The persistent store is the six tables customers, menu, orders, items,  *)
(* payments and events.  Request handlers run in worker processes; every   *)
(* ORM statement is one step, so that handlers interleave between          *)
(* statements.  Statements outside transaction.atomic() commit at once     *)
(* (Django's autocommit); statements inside it are buffered in txn[p] and  *)
(* reach the tables on commit, or are dropped on rollback.  The block      *)
(* reads and writes rows of its own order only, and the database           *)
(* serialises it against the other workers' statements: while a worker is  *)
(* inside the block the others take no step.                               *)
(***************************************************************************)
EXTENDS Integers, Sequences, FiniteSets, TLC

\* ---------------------------------------------------------------- bounds
\* requests and admin edits started in one behaviour
MaxCalls == 2

Procs == {1, 2}

\* ------------------------------------------------------- program constants
MinQuantity == 1
MaxQuantity == 100
TaxPercent == 8

Statuses ==
  {"PENDING", "CONFIRMED", "PREPARING", "READY", "OUT_FOR_DELIVERY", "COMPLETED", "CANCELLED"}

\* ------------------------------------------------------------ input domains
Absent == "<absent>"

MenuItemIds == {1, 2}

Line(m, q) == [menu_item_id |-> m, quantity |-> q]

Cust(e, n, ph, ad) == [email |-> e, full_name |-> n, phone |-> ph, address |-> ad]

Request(c, its, fee) == [customer |-> c, items |-> its, delivery_fee_cents |-> fee]

\* bodies of POST /api/orders/; "" stands for a missing or empty value, Absent
\* for a key the customer object does not hold
PlaceInputs ==
  { Request(Cust("b@x", "Bob", Absent, Absent), << Line(1, 3) >>, 200),
    Request(Cust("a@x", "Bob", "555", Absent), << Line(1, 1), Line(2, 100) >>, 0),
    Request(Cust("a@x", "Ann", Absent, "Elm St"), << >>, 0),
    Request(Cust("b@x", "Bea", "777", Absent), << Line(1, 1), Line(1, 2) >>, 0),
    Request(Cust("", "Ann", Absent, Absent), << Line(1, 3) >>, 0),
    Request(Cust("a@x", "", Absent, Absent), << Line(1, 3) >>, 0),
    Request(Cust("a@x", "Ann", Absent, Absent), << Line(2, 101) >>, 0),
    Request(Cust("a@x", "Ann", Absent, Absent), << Line(2, 0) >>, 0),
    Request(Cust("a@x", "Ann", Absent, Absent), << Line(9, 1) >>, 0) }

\* the values get_random_string(10).upper() may return
OrderNumbers == {"AAAAAAAAA1", "AAAAAAAAA2"}

\* request bodies' "status" values of the status endpoint
StatusInputs == {"PENDING", "CONFIRMED", "CANCELLED", "BOGUS"}

\* the rows an admin may save for a menu item
MenuRow(p, av, ac) == [price_cents |-> p, is_available |-> av, is_active |-> ac]

\* <<menu item id, the row saved for it>>
MenuEditInputs ==
  { << 1, MenuRow(995, TRUE, TRUE) >>,
    << 2, MenuRow(650, FALSE, TRUE) >>,
    << 1, MenuRow(1200, TRUE, FALSE) >> }

\* prices an admin may have given menu item 1 before the totals are computed
TotalsPrices == {0, 1, 7, 650, 995, 1200, 1999, 12345}

\* bodies of POST /api/orders/ for the computation of totals: every quantity of
\* item 1, alone or with a line of item 2, with and without a delivery fee
TotalsInputs ==
  { Request(Cust("a@x", "Ann", Absent, Absent), << Line(1, q) >> \o rest, fee) :
      q \in MinQuantity..MaxQuantity,
      rest \in { << >>, << Line(2, 1) >>, << Line(2, 100) >> },
      fee \in {0, 200} }

\* ------------------------------------------------------------------- state
VARIABLES
  menu,         \* MenuItem rows: id -> [price_cents, is_available, is_active]
  customers,    \* Customer rows
  orders,       \* committed Order rows
  items,        \* committed OrderItem rows
  payments,     \* committed Payment rows
  events,       \* committed OrderStatusEvent rows
  txn,          \* per process: rows written inside an open transaction.atomic()
  nextOrderId,  \* the Order table's id sequence
  now,          \* the clock read by timezone.now()
  pc,           \* per process: position in its handler
  loc,          \* per process: the handler's local variables
  calls,        \* requests and admin edits started so far
  failedOrders, \* history: ids of orders whose placeOrder call failed
  statusLog,    \* history: per order id, the status-changing calls completed
  custWriter,   \* history: per customer id, the full name supplied by the call
                \* that wrote the row last
  overlapped    \* history: some call started while another was in progress

vars ==
  << menu, customers, orders, items, payments, events, txn, nextOrderId, now, pc, loc,
     calls, failedOrders, statusLog, custWriter, overlapped >>

tables == << customers, orders, items, payments, events >>

NoTxn == [orders |-> {}, items |-> {}, payments |-> {}, events |-> {}]

NoLoc == [op |-> "none"]

\* ----------------------------------------------------------- pure helpers
RECURSIVE SumLines(_)
SumLines(S) ==
  IF S = {} THEN 0
  ELSE LET i == CHOOSE x \in S : TRUE
       IN i.quantity * i.unit_price_cents + SumLines(S \ {i})

\* Python's round() on n/d: to the nearest integer, an exact tie to the even one
RoundHalfEven(n, d) ==
  LET q == n \div d
      r == n % d
  IN IF 2 * r < d THEN q
     ELSE IF 2 * r > d THEN q + 1
     ELSE IF q % 2 = 0 THEN q ELSE q + 1

\* Order.recalculate_totals on order row o with line items its
recalculate_totals_noFee(o, its) ==
  LET subtotal == SumLines(its)
      tax == RoundHalfEven(subtotal * TaxPercent, 100)
  IN [o EXCEPT !.subtotal_cents = subtotal, !.tax_cents = tax,
               !.total_cents = subtotal + tax]

recalculate_totals_truncTax(o, its) ==
  LET subtotal == SumLines(its)
      tax == (subtotal * TaxPercent) \div 100
  IN [o EXCEPT !.subtotal_cents = subtotal, !.tax_cents = tax,
               !.total_cents = subtotal + tax + o.delivery_fee_cents]

recalculate_totals(o, its) ==
  LET subtotal == SumLines(its)
      tax == RoundHalfEven(subtotal * TaxPercent, 100)
  IN [o EXCEPT !.subtotal_cents = subtotal, !.tax_cents = tax,
               !.total_cents = subtotal + tax + o.delivery_fee_cents]

\* the store before the first request of a behaviour: the customer and the order
\* that an earlier request {a@x, Ann; 3 x item 1; fee 200} left behind
SeedCustomer ==
  [id |-> 1, email |-> "a@x", full_name |-> "Ann", phone |-> "", default_address |-> ""]

SeedItem ==
  [order |-> 1, line |-> 1, menu_item |-> 1, quantity |-> 3, unit_price_cents |-> 1200]

SeedOrder ==
  [id |-> 1, order_number |-> "AAAAAAAAA1", customer |-> 1, status |-> "PENDING",
   subtotal_cents |-> 3600, tax_cents |-> 288, delivery_fee_cents |-> 200,
   total_cents |-> 4088, updated_at |-> 2]

SeedPayment ==
  [order |-> 1, method |-> "CARD", amount_cents |-> 4088, currency |-> "USD",
   status |-> "INITIATED"]

SeedEvent == [order |-> 1, from_status |-> "PENDING", to_status |-> "PENDING", at |-> 3]

InitStore ==
  /\ customers = {SeedCustomer}
  /\ orders = {SeedOrder}
  /\ items = {SeedItem}
  /\ payments = {SeedPayment}
  /\ events = {SeedEvent}
  /\ nextOrderId = 2
  /\ now = 4
  /\ statusLog = (1 :> << >>)
  /\ custWriter = (1 :> "Ann")

Init ==
  /\ menu = [m \in MenuItemIds |-> IF m = 1 THEN MenuRow(1200, TRUE, TRUE)
                                           ELSE MenuRow(650, TRUE, TRUE)]
  /\ InitStore
  /\ txn = [p \in Procs |-> NoTxn]
  /\ pc = [p \in Procs |-> "idle"]
  /\ loc = [p \in Procs |-> NoLoc]
  /\ calls = 0
  /\ failedOrders = {}
  /\ overlapped = FALSE

\* ------------------------------------------------------------ bookkeeping
\* the server hands a request to its first free worker
Free(p) == pc[p] = "idle" /\ \A q \in Procs : q < p => pc[q] # "idle"

\* positions inside "with transaction.atomic():"
AtomicPcs == {"create_items", "save_totals", "create_payment", "create_event", "commit"}

\* no other worker is inside its atomic block
Quiet(p) == \A q \in Procs \ {p} : pc[q] \notin AtomicPcs

Busy(p) == \E q \in Procs \ {p} : pc[q] # "idle"

Snapshot ==
  [customers |-> customers, orders |-> orders, items |-> items,
   payments |-> payments, events |-> events]

ItemsOf(oid, S) == {i \in S : i.order = oid}

EventsOf(oid, S) == {e \in S : e.order = oid}

\* ------------------------------------------------------ request validation
\* OrderItemCreateSerializer: the menu item is in the queryset of active and
\* available items and the quantity is within [1, 100]
ValidLineAnyItem(l) ==
  /\ l.menu_item_id \in MenuItemIds
  /\ l.quantity >= MinQuantity
  /\ l.quantity <= MaxQuantity

ValidLine(l) ==
  /\ l.menu_item_id \in MenuItemIds
  /\ menu[l.menu_item_id].is_active
  /\ menu[l.menu_item_id].is_available
  /\ l.quantity >= MinQuantity
  /\ l.quantity <= MaxQuantity

\* OrderItemCreateSerializer.to_internal_value: the validated line with the
\* menu item's current price attached
to_internal_value_lineTotal(l) ==
  [menu_item |-> l.menu_item_id, quantity |-> l.quantity,
   unit_price_cents |-> l.quantity * menu[l.menu_item_id].price_cents]

to_internal_value(l) ==
  [menu_item |-> l.menu_item_id, quantity |-> l.quantity,
   unit_price_cents |-> menu[l.menu_item_id].price_cents]

\* PlaceOrderSerializer.validate_customer
validate_customer(c) == c.email # "" /\ c.full_name # ""

\* the "items" field: a ListSerializer with the default allow_empty=True
ValidItems(its) == \A k \in 1..Len(its) : ValidLine(its[k])

is_valid(c, its) == validate_customer(c) /\ ValidItems(its)

\* the fields the ValidationError of is_valid(raise_exception=True) lists
InvalidFields(data) ==
  {f \in {"customer"} : ~validate_customer(data.customer)}
    \cup {f \in {"items"} : ~ValidItems(data.items)}

\* history: the request names a menu item that is inactive or unavailable
ReferencesUnavailable(data) ==
  \E k \in 1..Len(data.items) :
    LET m == data.items[k].menu_item_id
    IN m \in MenuItemIds /\ ~(menu[m].is_active /\ menu[m].is_available)

\* ------------------------------------------------------------ constraints
\* Customer.email unique=True
EmailNeverTaken(e) == FALSE

EmailTaken(e) == \E r \in customers : r.email = e

\* Order.order_number unique=True, against the committed rows
OrderNumberTaken(n) == \E o \in orders : o.order_number = n

\* OrderItem unique_together (order, menu_item)
LineTaken(p, oid, m) ==
  \E i \in items \cup txn[p].items : i.order = oid /\ i.menu_item = m

\* -------------------------------------------------------------- placeOrder
\* PlaceOrderView.post: is_valid(raise_exception=True), then serializer.save()
PlaceOrderPost(p, data) ==
  /\ Free(p)
  /\ Quiet(p)
  /\ calls < MaxCalls
  /\ calls' = calls + 1
  /\ overlapped' = (overlapped \/ Busy(p))
  /\ IF is_valid(data.customer, data.items)
     THEN /\ pc' = [pc EXCEPT ![p] = "get_or_create"]
          /\ loc' = [loc EXCEPT ![p] =
               [op |-> "place", err |-> "", pre |-> Snapshot,
                unavailable |-> ReferencesUnavailable(data),
                customer_data |-> data.customer,
                items_data |-> [k \in 1..Len(data.items) |->
                                  to_internal_value(data.items[k])],
                delivery_fee_cents |-> data.delivery_fee_cents,
                customer |-> 0, retried |-> FALSE, order |-> 0, idx |-> 1,
                attempts |-> 0]]
     ELSE /\ pc' = [pc EXCEPT ![p] = "failed"]
          /\ loc' = [loc EXCEPT ![p] =
               [op |-> "place", err |-> "ValidationError", pre |-> Snapshot,
                unavailable |-> ReferencesUnavailable(data),
                fields |-> InvalidFields(data)]]
  /\ UNCHANGED << menu, tables, txn, nextOrderId, now, failedOrders, statusLog,
                  custWriter >>

\* Customer.objects.get_or_create, first statement: get(email=...)
GetOrCreateGet(p) ==
  /\ pc[p] = "get_or_create"
  /\ Quiet(p)
  /\ LET found == {r \in customers : r.email = loc[p].customer_data.email}
     IN IF found # {}
        THEN /\ pc' = [pc EXCEPT ![p] = "update_customer"]
             /\ loc' = [loc EXCEPT ![p].customer = CHOOSE r \in found : TRUE]
        ELSE /\ pc' = [pc EXCEPT ![p] = "create_customer"]
             /\ loc' = loc
  /\ UNCHANGED << menu, tables, txn, nextOrderId, now, calls, failedOrders,
                  statusLog, custWriter, overlapped >>

DefaultOf(v) == IF v = Absent THEN "" ELSE v

\* get_or_create, second statement: create(email=..., **defaults); an
\* IntegrityError sends it to get() once more
GetOrCreateCreate(p) ==
  /\ pc[p] = "create_customer"
  /\ Quiet(p)
  /\ LET c == loc[p].customer_data
         row == [id |-> Cardinality(customers) + 1, email |-> c.email,
                 full_name |-> c.full_name, phone |-> DefaultOf(c.phone),
                 default_address |-> DefaultOf(c.address)]
     IN IF EmailTaken(c.email)
        THEN /\ pc' = [pc EXCEPT ![p] = "reget_customer"]
             /\ UNCHANGED << customers, loc, custWriter >>
        ELSE /\ pc' = [pc EXCEPT ![p] = "update_customer"]
             /\ customers' = customers \cup {row}
             /\ loc' = [loc EXCEPT ![p].customer = row]
             /\ custWriter' = (row.id :> c.full_name) @@ custWriter
  /\ UNCHANGED << menu, orders, items, payments, events, txn, nextOrderId, now,
                  calls, failedOrders, statusLog, overlapped >>

\* get_or_create, after the IntegrityError: get(email=...)
GetOrCreateReget(p) ==
  /\ pc[p] = "reget_customer"
  /\ Quiet(p)
  /\ LET found == {r \in customers : r.email = loc[p].customer_data.email}
     IN IF found # {}
        THEN /\ loc' = [loc EXCEPT ![p].customer = CHOOSE r \in found : TRUE,
                                   ![p].retried = TRUE]
             /\ pc' = [pc EXCEPT ![p] = "update_customer"]
        ELSE /\ loc' = [loc EXCEPT ![p].err = "IntegrityError(email)"]
             /\ pc' = [pc EXCEPT ![p] = "failed"]
  /\ UNCHANGED << menu, tables, txn, nextOrderId, now, calls, failedOrders,
                  statusLog, custWriter, overlapped >>

\* the instance after "update name/phone/address if provided"
MergeCustomer(inst, c) ==
  [inst EXCEPT
     !.full_name = IF c.full_name # "" /\ inst.full_name # c.full_name
                   THEN c.full_name ELSE @,
     !.phone = IF c.phone # Absent /\ inst.phone # c.phone THEN c.phone ELSE @,
     !.default_address =
        IF c.address # Absent /\ inst.default_address # c.address THEN c.address ELSE @]

\* customer.save() when a field changed: UPDATE of every field by primary key
UpdateCustomer(p) ==
  /\ pc[p] = "update_customer"
  /\ Quiet(p)
  /\ LET inst == loc[p].customer
         merged == MergeCustomer(inst, loc[p].customer_data)
     IN /\ loc' = [loc EXCEPT ![p].customer = merged]
        /\ IF merged # inst
           THEN /\ customers' = {r \in customers : r.id # inst.id} \cup {merged}
                /\ custWriter' = [custWriter EXCEPT ![inst.id] =
                                    loc[p].customer_data.full_name]
           ELSE UNCHANGED << customers, custWriter >>
  /\ pc' = [pc EXCEPT ![p] = "create_order"]
  /\ UNCHANGED << menu, orders, items, payments, events, txn, nextOrderId, now,
                  calls, failedOrders, statusLog, overlapped >>

\* ------------------------------------------- placeOrder: transaction.atomic()
\* what a table holds after the atomic block is left by an exception: the
\* rows the transaction wrote are dropped
OnRollbackKeep(table, written) == table \cup written

OnRollback(table, written) == table

\* an exception inside the atomic block: roll back and leave create()
Abort(p, error, l) ==
  /\ orders' = OnRollback(orders, txn[p].orders)
  /\ items' = OnRollback(items, txn[p].items)
  /\ payments' = OnRollback(payments, txn[p].payments)
  /\ events' = OnRollback(events, txn[p].events)
  /\ txn' = [txn EXCEPT ![p] = NoTxn]
  /\ failedOrders' = failedOrders \cup {o.id : o \in txn[p].orders}
  /\ pc' = [pc EXCEPT ![p] = "failed"]
  /\ loc' = [loc EXCEPT ![p] = [l EXCEPT !.err = error]]
  /\ UNCHANGED << menu, customers, nextOrderId, now, calls, statusLog, custWriter,
                  overlapped >>

\* order_number = get_random_string(10).upper(); Order.objects.create(...)
CreateOrder(p, number, fault) ==
  /\ pc[p] = "create_order"
  /\ Quiet(p)
  /\ IF fault
     THEN Abort(p, "DatabaseError", [loc[p] EXCEPT !.attempts = @ + 1])
     ELSE IF OrderNumberTaken(number)
     THEN Abort(p, "IntegrityError(order_number)", [loc[p] EXCEPT !.attempts = @ + 1])
     ELSE LET row == [id |-> nextOrderId, order_number |-> number,
                      customer |-> loc[p].customer.id, status |-> "PENDING",
                      subtotal_cents |-> 0, tax_cents |-> 0,
                      delivery_fee_cents |-> loc[p].delivery_fee_cents,
                      total_cents |-> 0, updated_at |-> now]
          IN /\ txn' = [txn EXCEPT ![p].orders = {row}]
             /\ loc' = [loc EXCEPT ![p].order = row, ![p].attempts = @ + 1]
             /\ nextOrderId' = nextOrderId + 1
             /\ now' = now + 1
             /\ pc' = [pc EXCEPT ![p] =
                  IF Len(loc[p].items_data) = 0 THEN "save_totals" ELSE "create_items"]
             /\ UNCHANGED << menu, tables, calls, failedOrders, statusLog,
                             custWriter, overlapped >>
\* for item in items_data: OrderItem.objects.create(order=order, **item)
CreateOrderItem(p, fault) ==
  /\ pc[p] = "create_items"
  /\ LET k == loc[p].idx
         item == loc[p].items_data[k]
         oid == loc[p].order.id
         row == [order |-> oid, line |-> k, menu_item |-> item.menu_item,
                 quantity |-> item.quantity,
                 unit_price_cents |-> item.unit_price_cents]
     IN IF fault
        THEN Abort(p, "DatabaseError", loc[p])
        ELSE IF LineTaken(p, oid, item.menu_item)
        THEN Abort(p, "IntegrityError(order, menu_item)", loc[p])
        ELSE /\ txn' = [txn EXCEPT ![p].items = @ \cup {row}]
             /\ loc' = [loc EXCEPT ![p].idx = k + 1]
             /\ pc' = [pc EXCEPT ![p] =
                  IF k = Len(loc[p].items_data) THEN "save_totals" ELSE "create_items"]
             /\ UNCHANGED << menu, tables, nextOrderId, now, calls, failedOrders,
                             statusLog, custWriter, overlapped >>

\* order.recalculate_totals(); order.save()
SaveTotals(p, fault) ==
  /\ pc[p] = "save_totals"
  /\ LET old == loc[p].order
         calc == recalculate_totals(old, ItemsOf(old.id, items \cup txn[p].items))
         row == [calc EXCEPT !.updated_at = now]
     IN IF fault
        THEN Abort(p, "DatabaseError", loc[p])
        ELSE /\ txn' = [txn EXCEPT ![p].orders = {row}]
             /\ loc' = [loc EXCEPT ![p].order = row]
             /\ now' = now + 1
             /\ pc' = [pc EXCEPT ![p] = "create_payment"]
             /\ UNCHANGED << menu, tables, nextOrderId, calls, failedOrders,
                             statusLog, custWriter, overlapped >>

PaymentRowSubtotal(order) ==
  [order |-> order.id, method |-> "CARD",
   amount_cents |-> order.subtotal_cents, currency |-> "USD",
   status |-> "INITIATED"]

\* the keyword arguments of Payment.objects.create(...) in create()
PaymentRow(order) ==
  [order |-> order.id, method |-> "CARD",
   amount_cents |-> order.total_cents, currency |-> "USD",
   status |-> "INITIATED"]

\* Payment.objects.create(order=order, method=CARD, amount_cents=order.total_cents,
\* currency="USD", status=INITIATED)
CreatePayment(p, fault) ==
  /\ pc[p] = "create_payment"
  /\ LET row == PaymentRow(loc[p].order)
     IN IF fault
        THEN Abort(p, "DatabaseError", loc[p])
        ELSE /\ txn' = [txn EXCEPT ![p].payments = @ \cup {row}]
             /\ pc' = [pc EXCEPT ![p] = "create_event"]
             /\ UNCHANGED << menu, tables, nextOrderId, now, loc, calls,
                             failedOrders, statusLog, custWriter, overlapped >>

\* OrderStatusEvent.objects.create(order=order, from_status=PENDING, to_status=PENDING)
CreateFirstEvent(p, fault) ==
  /\ pc[p] = "create_event"
  /\ LET row == [order |-> loc[p].order.id, from_status |-> "PENDING",
                 to_status |-> "PENDING", at |-> now]
     IN IF fault
        THEN Abort(p, "DatabaseError", loc[p])
        ELSE /\ txn' = [txn EXCEPT ![p].events = @ \cup {row}]
             /\ now' = now + 1
             /\ pc' = [pc EXCEPT ![p] = "commit"]
             /\ UNCHANGED << menu, tables, nextOrderId, loc, calls,
                             failedOrders, statusLog, custWriter, overlapped >>

\* leaving the atomic block: COMMIT
Commit(p, fault) ==
  /\ pc[p] = "commit"
  /\ IF fault
     THEN Abort(p, "DatabaseError", loc[p])
     ELSE /\ orders' = orders \cup txn[p].orders
          /\ items' = items \cup txn[p].items
          /\ payments' = payments \cup txn[p].payments
          /\ events' = events \cup txn[p].events
          /\ txn' = [txn EXCEPT ![p] = NoTxn]
          /\ statusLog' = (loc[p].order.id :> << >>) @@ statusLog
          /\ pc' = [pc EXCEPT ![p] = "done"]
          /\ UNCHANGED << menu, customers, nextOrderId, now, loc, calls,
                          failedOrders, custWriter, overlapped >>

\* the response is sent; the worker is free again
Return(p) ==
  /\ pc[p] \in {"done", "failed"}
  /\ Quiet(p)
  /\ pc' = [pc EXCEPT ![p] = "idle"]
  /\ loc' = [loc EXCEPT ![p] = NoLoc]
  /\ UNCHANGED << menu, tables, txn, nextOrderId, now, calls, failedOrders,
                  statusLog, custWriter, overlapped >>
\* -------------------------------------------------------- transitionStatus
\* OrderStatusUpdateView.patch: get_object(), then is_valid(raise_exception=True)
StatusPatch(p, number, status) ==
  /\ Free(p)
  /\ Quiet(p)
  /\ calls < MaxCalls
  /\ calls' = calls + 1
  /\ overlapped' = (overlapped \/ Busy(p))
  /\ LET found == {o \in orders : o.order_number = number}
         inst == IF found = {} THEN 0 ELSE CHOOSE o \in found : TRUE
         error == IF found = {} THEN "NotFound"
                  ELSE IF status \notin Statuses THEN "ValidationError" ELSE ""
     IN /\ loc' = [loc EXCEPT ![p] =
              [op |-> "status", err |-> error, pre |-> Snapshot, order |-> inst,
               pre_status |-> IF found = {} THEN "" ELSE inst.status,
               new_status |-> status, old_status |-> ""]]
        /\ pc' = [pc EXCEPT ![p] = IF error = "" THEN "update_status" ELSE "failed"]
  /\ UNCHANGED << menu, tables, txn, nextOrderId, now, failedOrders, statusLog,
                  custWriter >>

\* Order.mark_status
mark_status(o, new_status) == [o EXCEPT !.status = new_status]

\* instance.save(update_fields=["status", "updated_at"]): UPDATE of the two
\* columns of the row with the instance's primary key
SaveStatusFields(inst, t) ==
  {IF o.id = inst.id THEN [o EXCEPT !.status = inst.status, !.updated_at = t] ELSE o
     : o \in orders}

\* whether update() returns early
IsNoOpNever(new_status, old_status) == FALSE

IsNoOp(new_status, old_status) == new_status = old_status

\* UpdateOrderStatusSerializer.update up to instance.save(...)
StatusSave(p, fault) ==
  /\ pc[p] = "update_status"
  /\ Quiet(p)
  /\ LET new_status == loc[p].new_status
         old_status == loc[p].order.status
         inst == mark_status(loc[p].order, new_status)
     IN IF IsNoOp(new_status, old_status)
        THEN /\ pc' = [pc EXCEPT ![p] = "done"]
             /\ loc' = [loc EXCEPT ![p].old_status = old_status]
             /\ UNCHANGED << orders, now >>
        ELSE IF fault
        THEN /\ pc' = [pc EXCEPT ![p] = "failed"]
             /\ loc' = [loc EXCEPT ![p].err = "DatabaseError",
                                   ![p].old_status = old_status]
             /\ UNCHANGED << orders, now >>
        ELSE /\ orders' = SaveStatusFields(inst, now)
             /\ now' = now + 1
             /\ loc' = [loc EXCEPT ![p].order = [inst EXCEPT !.updated_at = now],
                                   ![p].old_status = old_status]
             /\ pc' = [pc EXCEPT ![p] = "status_event"]
  /\ UNCHANGED << menu, customers, items, payments, events, txn, nextOrderId,
                  calls, failedOrders, statusLog, custWriter, overlapped >>

\* the row OrderStatusEvent.objects.create(order=instance, from_status=old_status,
\* to_status=new_status) inserts; at defaults to timezone.now
StatusEventRow(oid, old_status, new_status, t) ==
  [order |-> oid, from_status |-> old_status, to_status |-> new_status, at |-> t]

\* UpdateOrderStatusSerializer.update, the statement after instance.save(...)
StatusEvent(p, fault) ==
  /\ pc[p] = "status_event"
  /\ Quiet(p)
  /\ LET oid == loc[p].order.id
     IN IF fault
        THEN /\ pc' = [pc EXCEPT ![p] = "failed"]
             /\ loc' = [loc EXCEPT ![p].err = "DatabaseError"]
             /\ UNCHANGED << events, now, statusLog >>
        ELSE /\ events' = events \cup
                  {StatusEventRow(oid, loc[p].old_status, loc[p].new_status, now)}
             /\ now' = now + 1
             /\ statusLog' = [statusLog EXCEPT ![oid] =
                  Append(@, [from |-> loc[p].pre_status, to |-> loc[p].new_status])]
             /\ pc' = [pc EXCEPT ![p] = "done"]
             /\ loc' = loc
  /\ UNCHANGED << menu, customers, orders, items, payments, txn, nextOrderId,
                  calls, failedOrders, custWriter, overlapped >>

\* ---------------------------------------------------------------- listEvents
RECURSIVE NewestFirst(_)
\* OrderStatusEvent.objects.filter(order=order).order_by("-at")
NewestFirst(S) ==
  IF S = {} THEN << >>
  ELSE LET e == CHOOSE x \in S : \A y \in S : y.at <= x.at
       IN << e >> \o NewestFirst(S \ {e})

listEventsOldestFirst(oid) ==
  LET rows == NewestFirst(EventsOf(oid, events))
      n == Len(rows)
  IN [k \in 1..n |->
        [from_status |-> rows[n + 1 - k].from_status,
         to_status |-> rows[n + 1 - k].to_status]]

listEvents(oid) ==
  LET rows == NewestFirst(EventsOf(oid, events))
  IN [k \in 1..Len(rows) |->
        [from_status |-> rows[k].from_status, to_status |-> rows[k].to_status]]

\* ------------------------------------------------- recalculate_totals, admin
\* Order.recalculate_totals() called on an instance loaded from the store; the
\* method changes the instance in memory and does not save it
RecalculateTotals(p, oid) ==
  /\ Free(p)
  /\ Quiet(p)
  /\ calls < MaxCalls
  /\ calls' = calls + 1
  /\ overlapped' = (overlapped \/ Busy(p))
  /\ \E o \in orders :
       /\ o.id = oid
       /\ loc' = [loc EXCEPT ![p] =
            [op |-> "recalc", err |-> "", pre |-> Snapshot,
             order |-> recalculate_totals(o, ItemsOf(oid, items))]]
  /\ pc' = [pc EXCEPT ![p] = "done"]
  /\ UNCHANGED << menu, tables, txn, nextOrderId, now, failedOrders, statusLog,
                  custWriter >>

\* MenuItemAdmin: a staff user saves a menu item's price and flags
CatalogEdit(m, row) ==
  /\ calls < MaxCalls
  /\ calls' = calls + 1
  /\ menu[m] # row
  /\ Quiet(0)
  /\ menu' = [menu EXCEPT ![m] = row]
  /\ overlapped' = (overlapped \/ \E q \in Procs : pc[q] # "idle")
  /\ UNCHANGED << tables, txn, nextOrderId, now, pc, loc, failedOrders, statusLog,
                  custWriter >>

\* ------------------------------------------------------------ specification
Next ==
  \/ \E p \in Procs, data \in PlaceInputs : PlaceOrderPost(p, data)
  \/ \E p \in Procs : GetOrCreateGet(p)
  \/ \E p \in Procs : GetOrCreateCreate(p)
  \/ \E p \in Procs : GetOrCreateReget(p)
  \/ \E p \in Procs : UpdateCustomer(p)
  \/ \E p \in Procs, number \in OrderNumbers, fault \in BOOLEAN :
       CreateOrder(p, number, fault)
  \/ \E p \in Procs, fault \in BOOLEAN : CreateOrderItem(p, fault)
  \/ \E p \in Procs, fault \in BOOLEAN : SaveTotals(p, fault)
  \/ \E p \in Procs, fault \in BOOLEAN : CreatePayment(p, fault)
  \/ \E p \in Procs, fault \in BOOLEAN : CreateFirstEvent(p, fault)
  \/ \E p \in Procs, fault \in BOOLEAN : Commit(p, fault)
  \/ \E p \in Procs, number \in OrderNumbers, status \in StatusInputs :
       StatusPatch(p, number, status)
  \/ \E p \in Procs, fault \in BOOLEAN : StatusSave(p, fault)
  \/ \E p \in Procs, fault \in BOOLEAN : StatusEvent(p, fault)
  \/ \E p \in Procs, oid \in 1..MaxCalls : RecalculateTotals(p, oid)
  \/ \E e \in MenuEditInputs : CatalogEdit(e[1], e[2])
  \/ \E p \in Procs : Return(p)

Spec == Init /\ [][Next]_vars

\* ------------------------------------------------- computation of totals
\* one placeOrder call, on a catalog whose item 1 has any of TotalsPrices
InitTotals ==
  /\ menu \in {[m \in MenuItemIds |-> IF m = 1 THEN MenuRow(price, TRUE, TRUE)
                                              ELSE MenuRow(650, TRUE, TRUE)]
                : price \in TotalsPrices}
  /\ InitStore
  /\ txn = [p \in Procs |-> NoTxn]
  /\ pc = [p \in Procs |-> "idle"]
  /\ loc = [p \in Procs |-> NoLoc]
  /\ calls = MaxCalls - 1
  /\ failedOrders = {}
  /\ overlapped = FALSE

NextTotals ==
  \/ /\ calls < MaxCalls
     /\ \E p \in Procs, data \in TotalsInputs : PlaceOrderPost(p, data)
  \/ \E p \in Procs : GetOrCreateGet(p)
  \/ \E p \in Procs : UpdateCustomer(p)
  \/ \E p \in Procs, number \in OrderNumbers, fault \in BOOLEAN :
       CreateOrder(p, number, fault)
  \/ \E p \in Procs, fault \in BOOLEAN : CreateOrderItem(p, fault)
  \/ \E p \in Procs, fault \in BOOLEAN : SaveTotals(p, fault)
  \/ \E p \in Procs, fault \in BOOLEAN : CreatePayment(p, fault)
  \/ \E p \in Procs, fault \in BOOLEAN : CreateFirstEvent(p, fault)
  \/ \E p \in Procs, fault \in BOOLEAN : Commit(p, fault)
  \/ \E p \in Procs : Return(p)

SpecTotals == InitTotals /\ [][NextTotals]_vars

\* ------------------------------------------------------------------ claims
Placing(p) == loc[p].op = "place"

Transitioning(p) == loc[p].op = "status"

RowsOfOrder(oid) ==
  {o \in orders : o.id = oid} \cup ItemsOf(oid, items) \cup ItemsOf(oid, payments)
    \cup EventsOf(oid, events)

AggregateUnchanged(p) ==
  /\ orders = loc[p].pre.orders
  /\ items = loc[p].pre.items
  /\ payments = loc[p].pre.payments
  /\ events = loc[p].pre.events

\* C1: a placeOrder call that fails inside the atomic block leaves no Order,
\* OrderItem, Payment or OrderStatusEvent row of its order in the store; when
\* no other call ran beside it, the four tables are as they were before it.
C1_PlaceOrderAllOrNothing ==
  /\ \A oid \in failedOrders : RowsOfOrder(oid) = {}
  /\ \A p \in Procs :
       (pc[p] = "failed" /\ Placing(p) /\ ~overlapped) => AggregateUnchanged(p)

\* C1 witness: a call was rejected by the (order, menu item) constraint after
\* its order and first line had been inserted.
C1_Witness ==
  \E p \in Procs :
    /\ pc[p] = "failed"
    /\ Placing(p)
    /\ loc[p].err = "IntegrityError(order, menu_item)"
    /\ failedOrders # {}

OrderTotalsConsistent(o, its) ==
  /\ o.total_cents = o.subtotal_cents + o.tax_cents + o.delivery_fee_cents
  /\ o.subtotal_cents = SumLines(its)

\* C2: every persisted order, and every instance recalculate_totals has been
\* called on, has total = subtotal + tax + delivery fee and subtotal = sum of
\* quantity * unit price over its lines.
C2_TotalsInvariant ==
  /\ \A o \in orders : OrderTotalsConsistent(o, ItemsOf(o.id, items))
  /\ \A p \in Procs :
       loc[p].op = "recalc" =>
         OrderTotalsConsistent(loc[p].order, ItemsOf(loc[p].order.id, items))

\* C2 witness: an order of two lines is stored and some order has left PENDING.
C2_Witness ==
  /\ \E o \in orders : Cardinality(ItemsOf(o.id, items)) = 2
  /\ \E o \in orders : o.status # "PENDING"

\* C3 (as claimed): a transitionStatus call that fails leaves the orders and
\* the events as they were before the call.
C3_TransitionAtomic ==
  \A p \in Procs :
    (pc[p] = "failed" /\ Transitioning(p) /\ ~overlapped) => AggregateUnchanged(p)

\* C4 (as claimed): no order without line items is ever in the store.
C4_NoEmptyOrder == \A o \in orders : ItemsOf(o.id, items) # {}

\* C5 (as claimed): when placeOrder fails, the whole store, the Customer table
\* included, is as it was before the call.
C5_FailedPlaceLeavesStore ==
  \A p \in Procs :
    (pc[p] = "failed" /\ Placing(p) /\ ~overlapped) => Snapshot = loc[p].pre

IsCreationEvent(e) ==
  /\ e.from_status = "PENDING"
  /\ e.to_status = "PENDING"
  /\ \A f \in EventsOf(e.order, events) : e.at <= f.at

\* C6: a transitionStatus call asking for the status the order has changes
\* nothing (status, updated_at, events), and the only event with
\* from_status = to_status is an order's creation event.
C6_SameStatusNoOp ==
  /\ \A p \in Procs :
       ( /\ pc[p] = "done"
         /\ Transitioning(p)
         /\ loc[p].new_status = loc[p].pre_status
         /\ ~overlapped ) => Snapshot = loc[p].pre
  /\ \A e \in events : e.from_status = e.to_status => IsCreationEvent(e)

\* C6 witness: a call asked for CONFIRMED on an order that was CONFIRMED.
C6_Witness ==
  \E p \in Procs :
    /\ pc[p] = "done"
    /\ Transitioning(p)
    /\ loc[p].new_status = "CONFIRMED"
    /\ loc[p].pre_status = "CONFIRMED"
    /\ ~overlapped

RECURSIVE Reverse(_)
Reverse(sq) == IF sq = << >> THEN << >> ELSE Reverse(Tail(sq)) \o << Head(sq) >>

ExpectedTrail(oid) ==
  << [from_status |-> "PENDING", to_status |-> "PENDING"] >>
    \o [k \in 1..Len(statusLog[oid]) |->
          [from_status |-> statusLog[oid][k].from, to_status |-> statusLog[oid][k].to]]

\* C7: an order with n completed status-changing calls has n + 1 events, and
\* when the calls ran one after another listEvents returns, newest first, one
\* event (status before the call -> requested status) per call and last the
\* PENDING -> PENDING creation event.
C7_AuditTrail ==
  \A o \in orders :
    /\ Cardinality(EventsOf(o.id, events)) = Len(statusLog[o.id]) + 1
    /\ ~overlapped => listEvents(o.id) = Reverse(ExpectedTrail(o.id))

\* C7 witness: PENDING -> CONFIRMED then CONFIRMED -> CANCELLED, one after the
\* other, is listed newest first.
C7_Witness ==
  /\ ~overlapped
  /\ \E o \in orders :
       listEvents(o.id) =
         << [from_status |-> "CONFIRMED", to_status |-> "CANCELLED"],
            [from_status |-> "PENDING", to_status |-> "CONFIRMED"],
            [from_status |-> "PENDING", to_status |-> "PENDING"] >>

\* C8 (as claimed): placeOrder fails on an order-number collision only after
\* it generated an order number more than once.
C8_RetryOnCollision ==
  \A p \in Procs :
    ( /\ pc[p] = "failed"
      /\ Placing(p)
      /\ loc[p].err = "IntegrityError(order_number)" ) => loc[p].attempts > 1

\* C9: at most one Customer row per email; no placeOrder call fails on the
\* email constraint; the order of a call references the row of the call's
\* email; a row's full name is the one supplied by the call that wrote it last.
C9_CustomerUpsert ==
  /\ \A r1, r2 \in customers : r1.email = r2.email => r1 = r2
  /\ \A p \in Procs : Placing(p) => loc[p].err # "IntegrityError(email)"
  /\ \A p \in Procs :
       (Placing(p) /\ pc[p] = "done") =>
         \E r \in customers :
           /\ r.email = loc[p].customer_data.email
           /\ loc[p].order.customer = r.id
           /\ \E o \in orders : o.id = loc[p].order.id /\ o.customer = r.id
  /\ \A r \in customers : r.full_name = custWriter[r.id]

\* C9 witness: a call lost the race to create its customer, read the winner's
\* row instead and placed its order.
C9_Witness ==
  \E p \in Procs : Placing(p) /\ pc[p] = "done" /\ loc[p].retried

\* C10: a line stored by a call during which the catalog was not edited
\* carries the menu item's price of that time, and an edit of a menu item
\* changes no order, line or payment.
C10_PriceSnapshot ==
  [][ /\ \A i \in items' \ items :
           ~overlapped' => i.unit_price_cents = menu[i.menu_item].price_cents
      /\ menu' # menu => (orders' = orders /\ items' = items /\ payments' = payments)
    ]_vars

\* C10 witness: two stored lines of one menu item carry different unit prices,
\* the older one no longer the catalog's.
C10_Witness ==
  \E i, j \in items :
    /\ i.menu_item = j.menu_item
    /\ i.unit_price_cents # j.unit_price_cents
    /\ i.unit_price_cents # menu[i.menu_item].price_cents
    /\ j.unit_price_cents = menu[j.menu_item].price_cents
\* C11: a placeOrder call with a line naming an inactive or unavailable menu
\* item fails with a ValidationError on "items" and, run alone, leaves the
\* whole store as it was; a line stored by a call during which the catalog was
\* not edited names a menu item that is active and available.
C11_UnavailableRejected ==
  [][ /\ \A p \in Procs :
           (loc'[p].op = "place" /\ loc'[p].unavailable) =>
             /\ pc'[p] = "failed"
             /\ loc'[p].err = "ValidationError"
             /\ "items" \in loc'[p].fields
             /\ ~overlapped' =>
                  ( customers' = loc'[p].pre.customers
                    /\ orders' = loc'[p].pre.orders
                    /\ items' = loc'[p].pre.items
                    /\ payments' = loc'[p].pre.payments
                    /\ events' = loc'[p].pre.events )
      /\ \A i \in items' \ items :
           ~overlapped' =>
             (menu[i.menu_item].is_active /\ menu[i.menu_item].is_available)
    ]_vars

\* C11 witness: a call naming a menu item an admin had made inactive or
\* unavailable was rejected, and nothing was stored.
C11_Witness ==
  \E p \in Procs :
    /\ pc[p] = "failed"
    /\ Placing(p)
    /\ loc[p].unavailable
    /\ loc[p].err = "ValidationError"
    /\ Snapshot = loc[p].pre
PaymentsOf(oid) == {pay \in payments : pay.order = oid}

\* C12: every stored order has exactly one payment row, with status INITIATED,
\* method CARD, currency USD and amount equal to the order's total; no payment
\* row names an order that is not stored; and no step of a transitionStatus
\* call adds, removes or changes a payment row.
C12_OnePaymentPerOrder ==
  [][ /\ \A o \in orders' :
           PaymentsOf(o.id)' =
             {[order |-> o.id, method |-> "CARD", amount_cents |-> o.total_cents,
               currency |-> "USD", status |-> "INITIATED"]}
      /\ \A pay \in payments' : \E o \in orders' : o.id = pay.order
      /\ (\E p \in Procs : Transitioning(p)' /\ (pc'[p] # pc[p]))
           => payments' = payments
    ]_vars

\* C12 witness: an order placed in this behaviour, with a delivery fee and so
\* a total above its subtotal, has its payment row, and a transitionStatus
\* call has changed the status of a stored order.
C12_Witness ==
  \E o \in orders :
    /\ o.id # SeedOrder.id
    /\ o.total_cents > o.subtotal_cents
    /\ Cardinality(PaymentsOf(o.id)) = 1
    /\ \E o2 \in orders : o2.status # "PENDING"
\* C13: once the transitionStatus calls running on an order, concurrent ones
\* included, have all completed, the newest event of the order has the order's
\* stored status as its to_status, and every event's from_status is the
\* to_status of the event just before it.
C13_TrailConsistent ==
  \A o \in orders :
    (\A p \in Procs :
        Transitioning(p) /\ pc[p] = "done" /\ loc[p].order.id = o.id)
    => LET trail == listEvents(o.id)
       IN /\ trail[1].to_status = o.status
          /\ \A k \in 1..(Len(trail) - 1) :
               trail[k].from_status = trail[k + 1].to_status
RECURSIVE LinesTotal(_)
LinesTotal(sq) ==
  IF sq = << >> THEN 0
  ELSE Head(sq).quantity * Head(sq).unit_price_cents + LinesTotal(Tail(sq))

\* float(subtotal) * 0.08 is within one ten-thousandth of 8 * subtotal / 100
\* for every subtotal an integer column holds; the deviations, in
\* ten-thousandths, under which the rounding is compared
FloatSlack == {-1, 0, 1}

TotalsComputed(p) ==
  Placing(p) /\ pc[p] \in {"create_payment", "create_event", "commit", "done"}

\* C14: once recalculate_totals has run on an order, its subtotal is the sum
\* of quantity * unit price over its lines, its tax is
\* floor((8 * subtotal + 50) / 100), which is also what rounding to nearest,
\* ties to even, gives, since 8 * subtotal / 100 is never an exact half and
\* is never close to one, and its total is subtotal + tax + delivery fee; one
\* line of 3 at 1200 with a fee of 200 gives 3600, 288 and 4088.
C14_TaxRounding ==
  \A p \in Procs :
    TotalsComputed(p) =>
      LET o == loc[p].order
          s == LinesTotal(loc[p].items_data)
      IN /\ o.subtotal_cents = s
         /\ o.tax_cents = (8 * s + 50) \div 100
         /\ (8 * s) % 100 # 50
         /\ \A e \in FloatSlack : RoundHalfEven(800 * s + e, 10000) = o.tax_cents
         /\ o.total_cents = s + o.tax_cents + loc[p].delivery_fee_cents
         /\ ( /\ Len(loc[p].items_data) = 1
              /\ loc[p].items_data[1].quantity = 3
              /\ loc[p].items_data[1].unit_price_cents = 1200
              /\ loc[p].delivery_fee_cents = 200 )
            => (o.subtotal_cents = 3600 /\ o.tax_cents = 288 /\ o.total_cents = 4088)

\* C14 witness: an order of one line of 3 at 1200 with a fee of 200 was
\* committed with its totals computed.
C14_Witness ==
  \E p \in Procs :
    /\ TotalsComputed(p)
    /\ pc[p] = "done"
    /\ loc[p].order \in orders
    /\ loc[p].items_data = << [menu_item |-> 1, quantity |-> 3, unit_price_cents |-> 1200] >>
    /\ loc[p].delivery_fee_cents = 200
    /\ loc[p].order.total_cents = 4088
====
